---- MODULE Spec2Model ----
(***************************************************************************)
(* Shipwreck Explorer (src/app.py): the loader with its derived columns,   *)
(* the three-predicate filter, the four views and the rerun-on-interaction *)
(* control flow of main().                                                 *)
(***************************************************************************)
EXTENDS Integers, Sequences, FiniteSets, TLC

(* ------------------------------ bounds -------------------------------- *)
MaxRows == 3
MaxLong == 11

(* ------------------------- program constants -------------------------- *)
TopN == 10
FallbackMinYear == 1705
FallbackMaxYear == 2000
DefaultTypes == 5
ViewOptions == <<"Map", "Vessel Types", "Time Trends", "Deadliest Wrecks">>
GREEN == <<0, 180, 0, 160>>
RED == <<220, 0, 0, 200>>
NoCoordsMsg == "No wrecks with valid coordinates for the current filters."
NoMatchMsg == "No wrecks match the current filters."

(* --------------------------- numeric cells ---------------------------- *)
\* A float cell of a numeric column: NaN or a number.
NaN == [nan |-> TRUE, val |-> 0]
Num(n) == [nan |-> FALSE, val |-> n]
notna(x) == ~x.nan

\* A raw field of the CSV file: a numeral, some other text, or nothing.
IntCell(n) == [kind |-> "int", val |-> n]
TextCell == [kind |-> "text", val |-> 0]
EmptyCell == [kind |-> "empty", val |-> 0]

\* pd.to_numeric(errors="coerce"): what does not parse becomes NaN.
to_numeric(c) == IF c.kind = "int" THEN Num(c.val) ELSE NaN

\* A vessel-type field: the empty field is read as missing.
MissingType == ""
type_notna(v) == v # MissingType

\* Alphabetical order of the vessel types (sorted(), groupby keys).
TypeOrder == <<"Barge", "Schooner", "Steamer">>
TypeRank(v) == CHOOSE i \in 1..Len(TypeOrder) : TypeOrder[i] = v

\* str(v).strip() != ""
NonBlank(v) == v \notin {"", " "}

SetMax(S) == CHOOSE x \in S : \A y \in S : y <= x
SetMin(S) == CHOOSE x \in S : \A y \in S : x <= y

Range(s) == {s[i] : i \in 1..Len(s)}

RECURSIVE SumSeq(_)
SumSeq(s) == IF s = <<>> THEN 0 ELSE s[1] + SumSeq(Tail(s))

\* The elements of S as a sequence in increasing order.
RECURSIVE Ascending(_)
Ascending(S) ==
    IF S = {} THEN <<>> ELSE <<SetMin(S)>> \o Ascending(S \ {SetMin(S)})

\* Boolean indexing df[mask]: the rows whose mask is True, in table order.
RECURSIVE Select(_, _)
Select(t, mask) ==
    IF t = <<>> THEN <<>>
    ELSE (IF mask[1] THEN <<t[1]>> ELSE <<>>) \o Select(Tail(t), Tail(mask))

(* ------------------------------ loader -------------------------------- *)
lives_lost_clean(x) == IF x.nan THEN 0 ELSE x.val

decade(y) == IF notna(y) THEN Num((y.val \div 10) * 10) ELSE NaN

century_ceil(y) == IF notna(y) THEN Num(((y.val + 99) \div 100)) ELSE NaN
century(y) == IF notna(y) THEN Num((y.val \div 100) + 1) ELSE NaN

has_coords(lat, lon) == notna(lat) /\ notna(lon)

load_row(raw, i) ==
    LET year == to_numeric(raw.YEAR)
        lives == to_numeric(raw.LIVES_LOST)
        lat == to_numeric(raw.LATITUDE)
        lon == to_numeric(raw.LONGITUDE)
    IN [idx |-> i - 1,
        NAME |-> raw.NAME,
        YEAR |-> year,
        VESSEL_TYPE |-> raw.VESSEL_TYPE,
        LIVES_LOST |-> lives,
        LATITUDE |-> lat,
        LONGITUDE |-> lon,
        LIVES_LOST_CLEAN |-> lives_lost_clean(lives),
        DECADE |-> decade(year),
        CENTURY |-> century(year),
        HAS_COORDS |-> has_coords(lat, lon)]

load_data(file) == [i \in 1..Len(file) |-> load_row(file[i], i)]

(* ------------------------------ filter -------------------------------- *)
\* The vessel_types argument: None, or a list (kept as the set of its items).
None == [isNone |-> TRUE, items |-> {}]
List(S) == [isNone |-> FALSE, items |-> S]
Falsy(v) == v.isNone \/ v.items = {}

isin(v, items) == type_notna(v) /\ v \in items

\* Series.between(lo, hi): inclusive at both ends, False on NaN.
between(y, lo, hi) == notna(y) /\ lo <= y.val /\ y.val <= hi

type_mask(t, vessel_types) ==
    [i \in 1..Len(t) |->
        IF Falsy(vessel_types) THEN type_notna(t[i].VESSEL_TYPE)
        ELSE isin(t[i].VESSEL_TYPE, vessel_types.items)]

year_mask(t, yr) == [i \in 1..Len(t) |-> between(t[i].YEAR, yr[1], yr[2])]

lives_mask(t, m) == [i \in 1..Len(t) |-> t[i].LIVES_LOST_CLEAN >= m]

filter_mask(t, yr, vessel_types, m) ==
    [i \in 1..Len(t) |->
        year_mask(t, yr)[i] /\ type_mask(t, vessel_types)[i]
            /\ lives_mask(t, m)[i]]

\* The rows selected by the mask of the row after them (mask off by one).
filter_rows_shifted(t, yr, vessel_types, m) ==
    LET mk == filter_mask(t, yr, vessel_types, m)
    IN Select(t, [i \in 1..Len(t) |-> IF i < Len(t) THEN mk[i + 1] ELSE FALSE])
\* The rows kept under a strict lower year bound.
filter_rows_strict(t, yr, vessel_types, m) ==
    Select(t, filter_mask(t, <<yr[1] + 1, yr[2]>>, vessel_types, m))
\* The rows kept when an empty selection applies no type predicate at all.
filter_rows_notype(t, yr, vessel_types, m) ==
    Select(t, [i \in 1..Len(t) |->
        year_mask(t, yr)[i] /\ lives_mask(t, m)[i]
            /\ (Falsy(vessel_types) \/ type_mask(t, vessel_types)[i])])
filter_rows(t, yr, vessel_types, m) ==
    Select(t, filter_mask(t, yr, vessel_types, m))

\* filter_wrecks writing a column into its argument before selecting.
filter_wrecks_marks(t, yr, vessel_types, m) ==
    [arg |-> [i \in 1..Len(t) |->
                [t[i] EXCEPT !.HAS_COORDS = filter_mask(t, yr, vessel_types, m)[i]]],
     ret |-> filter_rows(t, yr, vessel_types, m)]
\* filter_wrecks: ret is the returned fresh copy, arg is the argument table
\* as it is after the call.
filter_wrecks(t, yr, vessel_types, m) ==
    [arg |-> t, ret |-> filter_rows(t, yr, vessel_types, m)]

get_year_limits(t) ==
    LET years == {t[i].YEAR.val : i \in {j \in 1..Len(t) : notna(t[j].YEAR)}}
    IN IF years = {} THEN <<FallbackMinYear, FallbackMaxYear>>
       ELSE <<SetMin(years), SetMax(years)>>

(* ------------------------------- views -------------------------------- *)
\* What a view puts on the page; the fields a view does not fill stay empty.
\* reductions holds, for every reduction the view computed, its name and
\* the number of rows it was computed over.
NoOutput ==
    [msg |-> "", error |-> "", reductions |-> {}, map_data |-> <<>>,
     center |-> <<>>, counts |-> <<>>, max_row |-> <<>>, yearly |-> <<>>,
     pivot |-> <<>>, top10 |-> <<>>, stats |-> <<>>]

\* The orders of the positions of S by non-increasing key: which of
\* two rows of equal key comes first is up to the sort (quicksort).
RECURSIVE DescOrders(_, _)
DescOrders(S, key) ==
    IF S = {} THEN {<<>>}
    ELSE LET m == SetMax({key[i] : i \in S})
             tops == {i \in S : key[i] = m}
         IN UNION {{<<i>> \o r : r \in DescOrders(S \ {i}, key)} : i \in tops}

\* The table in its source order, whatever the keys.
sort_values_unsorted(t, key) == {t}
\* DataFrame.sort_values(col, ascending=False): the possible results.
sort_values(t, key) ==
    {[j \in 1..Len(t) |-> t[o[j]]] : o \in DescOrders(1..Len(t), key)}

\* DataFrame.head(n)
head(t, n) == SubSeq(t, 1, IF Len(t) < n THEN Len(t) ELSE n)

\* Series.mean() of an integer column, kept as the pair (sum, count).
mean(vals) == <<SumSeq(vals), Len(vals)>>

color(x) == IF x = 0 THEN GREEN ELSE RED

show_map_view(filtered) ==
    LET map_data == Select(filtered,
                           [i \in 1..Len(filtered) |-> filtered[i].HAS_COORDS])
        lats == [i \in 1..Len(map_data) |-> map_data[i].LATITUDE.val]
        lons == [i \in 1..Len(map_data) |-> map_data[i].LONGITUDE.val]
    IN IF map_data = <<>>
       THEN {[NoOutput EXCEPT !.msg = NoCoordsMsg]}
       ELSE {[NoOutput EXCEPT
                !.reductions = {<<"mean", Len(map_data)>>},
                !.center = <<mean(lats), mean(lons)>>,
                !.map_data = [i \in 1..Len(map_data) |->
                                [row |-> map_data[i],
                                 COLOR |-> color(map_data[i].LIVES_LOST_CLEAN)]]]}

\* groupby("VESSEL TYPE")["SHIP'S NAME"].count().reset_index(...): one row
\* per vessel type present, in alphabetical order, labelled 0, 1, ...; the
\* count is the number of rows of the group that have a ship's name.
type_counts(t) ==
    LET ranks == Ascending({TypeRank(t[i].VESSEL_TYPE) :
                     i \in {j \in 1..Len(t) : type_notna(t[j].VESSEL_TYPE)}})
    IN [g \in 1..Len(ranks) |->
          [label |-> g - 1,
           VESSEL_TYPE |-> TypeOrder[ranks[g]],
           WRECK_COUNT |-> Cardinality({i \in 1..Len(t) :
                              t[i].VESSEL_TYPE = TypeOrder[ranks[g]] /\ t[i].NAME})]]

\* Series.idxmax(): the index label of the first largest value.
idxmax(counts) ==
    LET m == SetMax({counts[i].WRECK_COUNT : i \in 1..Len(counts)})
        first == SetMin({i \in 1..Len(counts) : counts[i].WRECK_COUNT = m})
    IN counts[first].label

\* DataFrame.iloc[k]: the row at position k, counted from 0.
iloc(t, k) == t[k + 1]

show_vessel_chart_view(filtered) ==
    IF filtered = <<>>
    THEN {[NoOutput EXCEPT !.msg = NoMatchMsg]}
    ELSE LET grouped == type_counts(filtered)
             keys == [g \in 1..Len(grouped) |-> grouped[g].WRECK_COUNT]
         IN {[NoOutput EXCEPT
                !.reductions = {<<"groupby", Len(filtered)>>,
                                <<"idxmax", Len(counts)>>},
                !.counts = counts,
                !.max_row = <<iloc(counts, idxmax(counts))>>]
             : counts \in sort_values(grouped, keys)}

year_counts(t) ==
    LET rows == {i \in 1..Len(t) : notna(t[i].YEAR)}
        years == Ascending({t[i].YEAR.val : i \in rows})
    IN [g \in 1..Len(years) |->
          [YEAR |-> years[g],
           WRECK_COUNT |-> Cardinality({i \in rows :
                              t[i].YEAR.val = years[g] /\ t[i].NAME})]]

\* pivot_table(index="DECADE", columns="VESSEL TYPE", aggfunc="count",
\* fill_value=0): a cell per decade and vessel type of the table.
pivot_table(t) ==
    LET rows == {i \in 1..Len(t) :
                    notna(t[i].DECADE) /\ type_notna(t[i].VESSEL_TYPE)}
        decades == {t[i].DECADE.val : i \in rows}
        types == {t[i].VESSEL_TYPE : i \in rows}
    IN [c \in decades \X types |->
          Cardinality({i \in rows : t[i].DECADE.val = c[1]
                          /\ t[i].VESSEL_TYPE = c[2] /\ t[i].NAME})]

show_time_trend_view(filtered) ==
    IF filtered = <<>>
    THEN {[NoOutput EXCEPT !.msg = NoMatchMsg]}
    ELSE {[NoOutput EXCEPT
             !.reductions = {<<"groupby", Len(filtered)>>,
                             <<"pivot", Len(filtered)>>},
             !.yearly = year_counts(filtered),
             !.pivot = <<pivot_table(filtered)>>]}

deadliest_stats(filtered) ==
    LET lives == [i \in 1..Len(filtered) |-> filtered[i].LIVES_LOST_CLEAN]
    IN [total |-> Len(filtered),
        with_loss |-> Cardinality({i \in 1..Len(filtered) : lives[i] > 0}),
        lives_sum |-> SumSeq(lives),
        lives_max |-> SetMax(Range(lives))]

\* The view without its emptiness guard: the maximum of no rows is NaN and
\* int(NaN) raises.
show_deadliest_view_unguarded(filtered) ==
    IF filtered = <<>>
    THEN {[NoOutput EXCEPT
             !.error = "ValueError",
             !.reductions = {<<"sort", 0>>, <<"sum", 0>>, <<"max", 0>>}]}
    ELSE {[NoOutput EXCEPT
             !.reductions = {<<"sort", Len(filtered)>>, <<"sum", Len(filtered)>>,
                             <<"max", Len(filtered)>>},
             !.top10 = head(deadly, TopN),
             !.stats = <<deadliest_stats(filtered)>>]
          : deadly \in sort_values(filtered,
                [i \in 1..Len(filtered) |-> filtered[i].LIVES_LOST_CLEAN])}
show_deadliest_view(filtered) ==
    IF filtered = <<>>
    THEN {[NoOutput EXCEPT !.msg = NoMatchMsg]}
    ELSE {[NoOutput EXCEPT
             !.reductions = {<<"sort", Len(filtered)>>, <<"sum", Len(filtered)>>,
                             <<"max", Len(filtered)>>},
             !.top10 = head(deadly, TopN),
             !.stats = <<deadliest_stats(filtered)>>]
          : deadly \in sort_values(filtered,
                [i \in 1..Len(filtered) |-> filtered[i].LIVES_LOST_CLEAN])}

(* -------------------------------- main --------------------------------- *)
\* sorted([v for v in df["VESSEL TYPE"].dropna().unique() if ...])
vessel_type_options(t) ==
    Ascending({TypeRank(t[i].VESSEL_TYPE) :
        i \in {j \in 1..Len(t) : type_notna(t[j].VESSEL_TYPE)
                                   /\ NonBlank(t[j].VESSEL_TYPE)}})

vessel_types(t) ==
    [g \in 1..Len(vessel_type_options(t)) |-> TypeOrder[vessel_type_options(t)[g]]]

\* vessel_types[:5] if len(vessel_types) >= 5 else vessel_types
default_types(t) == Range(head(vessel_types(t), DefaultTypes))

\* int(df["LIVES_LOST_CLEAN"].max()), the upper bound of the number input
max_lives(t) == SetMax({t[i].LIVES_LOST_CLEAN : i \in 1..Len(t)})

show_view(view_choice, filtered) ==
    IF view_choice = "Map" THEN show_map_view(filtered)
    ELSE IF view_choice = "Vessel Types" THEN show_vessel_chart_view(filtered)
    ELSE IF view_choice = "Time Trends" THEN show_time_trend_view(filtered)
    ELSE show_deadliest_view(filtered)

\* main() calling filter_wrecks without the minimum, which then defaults to 0.
main_default_min(t, yr, selected, m, view_choice) ==
    LET f == filter_wrecks(t, yr, List(selected), 0)
    IN {[df |-> f.arg, filtered |-> f.ret, out |-> o]
        : o \in show_view(view_choice, f.ret)}
\* One run of main() from the filter on: the possible pages, each with the
\* loaded table as the run leaves it and the view handed to the renderer.
main(t, yr, selected, m, view_choice) ==
    LET f == filter_wrecks(t, yr, List(selected), m)
    IN {[df |-> f.arg, filtered |-> f.ret, out |-> o]
        : o \in show_view(view_choice, f.ret)}

(* ------------------------------- inputs ------------------------------- *)
Row(name, year, type, lives, lat, lon) ==
    [NAME |-> name, YEAR |-> year, VESSEL_TYPE |-> type, LIVES_LOST |-> lives,
     LATITUDE |-> lat, LONGITUDE |-> lon]

Pool ==
    {Row(TRUE, IntCell(1895), "Schooner", IntCell(3), IntCell(42), IntCell(-70)),
     Row(TRUE, IntCell(1900), "Steamer", EmptyCell, EmptyCell, IntCell(-71)),
     Row(FALSE, IntCell(1901), "Schooner", IntCell(0), IntCell(41), IntCell(-69)),
     Row(TRUE, EmptyCell, "Steamer", IntCell(7), IntCell(43), IntCell(-70)),
     Row(TRUE, IntCell(1900), MissingType, TextCell, IntCell(42), IntCell(-68)),
     Row(TRUE, IntCell(1901), "Barge", IntCell(-1), TextCell, TextCell)}

ShortTables == UNION {[1..n -> Pool] : n \in 0..MaxRows}

LongSteps == {1, 3}
LongTable(n, k) ==
    [i \in 1..n |->
        Row(TRUE, IntCell(1900), "Schooner", IntCell((i * k) % 5),
            IntCell(40 + (i % 3)), IntCell(-70))]
LongTables == {LongTable(n, k) : n \in (TopN + 1)..MaxLong, k \in LongSteps}

Files == ShortTables \cup LongTables

(* --------------------------- state machine ---------------------------- *)
VARIABLES
    pc,              \* "start", "rendered" or "failed"
    csv,             \* the rows of ShipwreckDatabase.csv
    df,              \* the table load_data() gave, as the last run left it
    year_range,      \* the widgets' values
    selected_types,
    min_lives,
    view_choice,
    filtered,        \* the table handed to the view of the last run
    out              \* what that view put on the page

vars == <<pc, csv, df, year_range, selected_types, min_lives, view_choice,
          filtered, out>>

Init ==
    /\ pc = "start"
    /\ csv \in Files
    /\ df = <<>>
    /\ year_range = <<0, 0>>
    /\ selected_types = {}
    /\ min_lives = 0
    /\ view_choice = "Map"
    /\ filtered = <<>>
    /\ out = NoOutput

\* The run of main() with the widgets at the given values.
Run(yr, selected, m, view) ==
    \E r \in main(load_data(csv), yr, selected, m, view) :
        /\ pc' = "rendered"
        /\ df' = r.df
        /\ filtered' = r.filtered
        /\ out' = r.out
        /\ year_range' = yr
        /\ selected_types' = selected
        /\ min_lives' = m
        /\ view_choice' = view
        /\ UNCHANGED csv

\* The first run over an empty table: the maximum of no rows is NaN and
\* int(NaN) raises before any view is shown.
StartFails ==
    /\ pc = "start"
    /\ load_data(csv) = <<>>
    /\ pc' = "failed"
    /\ out' = [NoOutput EXCEPT !.error = "ValueError"]
    /\ UNCHANGED <<csv, df, year_range, selected_types, min_lives,
                   view_choice, filtered>>

\* The first run: every widget at its default.
Start ==
    /\ pc = "start"
    /\ load_data(csv) # <<>>
    /\ Run(get_year_limits(load_data(csv)), default_types(load_data(csv)),
           0, ViewOptions[1])

\* The values the year slider is moved to.
SliderStops ==
    {df[i].YEAR.val : i \in {j \in 1..Len(df) : notna(df[j].YEAR)}}
        \cup Range(get_year_limits(df))

\* The values typed into the number input.
LivesStops ==
    {0} \cup {df[i].LIVES_LOST_CLEAN : i \in 1..Len(df)}

SetYearRange ==
    /\ pc = "rendered"
    /\ \E lo \in SliderStops, hi \in SliderStops :
        /\ get_year_limits(df)[1] <= lo /\ lo <= hi
        /\ hi <= get_year_limits(df)[2]
        /\ <<lo, hi>> # year_range
        /\ Run(<<lo, hi>>, selected_types, min_lives, view_choice)

SetVesselTypes ==
    /\ pc = "rendered"
    /\ \E sel \in SUBSET Range(vessel_types(df)) :
        /\ sel # selected_types
        /\ Run(year_range, sel, min_lives, view_choice)

SetMinLives ==
    /\ pc = "rendered"
    /\ \E m \in LivesStops :
        /\ 0 <= m /\ m <= max_lives(df)
        /\ m # min_lives
        /\ Run(year_range, selected_types, m, view_choice)

SetView ==
    /\ pc = "rendered"
    /\ \E v \in Range(ViewOptions) :
        /\ v # view_choice
        /\ Run(year_range, selected_types, min_lives, v)

Next ==
    \/ StartFails
    \/ Start
    \/ SetYearRange
    \/ SetVesselTypes
    \/ SetMinLives
    \/ SetView

Spec == Init /\ [][Next]_vars

(* ------------------------------ properties ---------------------------- *)
Loaded == load_data(csv)
Rendered == pc = "rendered"
Rows(t) == {t[i] : i \in 1..Len(t)}

TypePasses(r) ==
    IF selected_types = {} THEN r.VESSEL_TYPE # MissingType
    ELSE r.VESSEL_TYPE \in selected_types
YearPasses(r) ==
    /\ ~r.YEAR.nan
    /\ year_range[1] <= r.YEAR.val
    /\ r.YEAR.val <= year_range[2]
LivesPasses(r) == r.LIVES_LOST_CLEAN >= min_lives
Accepted(r) == YearPasses(r) /\ TypePasses(r) /\ LivesPasses(r)

\* C1: the filtered view holds exactly the loaded records whose year is
\* present and within [lo, hi] inclusive, whose vessel type passes the type
\* predicate and whose lives_lost_clean >= m; no record of absent year is in
\* it, and it keeps the records in source-table order.
C1_FilterExact ==
    Rendered =>
        /\ \A r \in Rows(filtered) : r \in Rows(Loaded) /\ Accepted(r)
        /\ \A r \in Rows(Loaded) : Accepted(r) => r \in Rows(filtered)
        /\ \A r \in Rows(filtered) : ~r.YEAR.nan
        /\ \A j, k \in 1..Len(filtered) :
              j < k => filtered[j].idx < filtered[k].idx

C1_Witness ==
    /\ Rendered
    /\ Len(filtered) >= 2
    /\ \E r \in Rows(Loaded) :
          /\ ~r.YEAR.nan /\ r.YEAR.val = year_range[1]
          /\ r \in Rows(filtered)
    /\ \E r \in Rows(Loaded) : ~YearPasses(r) /\ TypePasses(r) /\ LivesPasses(r)

\* C2: in the vessel-type chart over a non-empty view, the vessel type
\* reported as most frequently wrecked is a group of maximum count, the
\* reported number of wrecks is that maximum, and the counts table is sorted
\* descending by count.
C2_MostFrequentIsMax ==
    (Rendered /\ view_choice = "Vessel Types" /\ filtered # <<>>) =>
        /\ \A g \in 1..Len(out.counts) :
              out.max_row[1].WRECK_COUNT >= out.counts[g].WRECK_COUNT
        /\ \E g \in 1..Len(out.counts) : out.counts[g] = out.max_row[1]
        /\ \A g, h \in 1..Len(out.counts) :
              g < h => out.counts[g].WRECK_COUNT >= out.counts[h].WRECK_COUNT

\* C3 as stated: the century of year 1895 is 19, of year 1900 is 19 and
\* of year 1901 is 20, and it is absent when the year is absent.
C3_CenturyAsStated ==
    \A r \in Rows(df) :
        /\ r.YEAR = Num(1895) => r.CENTURY = Num(19)
        /\ r.YEAR = Num(1900) => r.CENTURY = Num(19)
        /\ r.YEAR = Num(1901) => r.CENTURY = Num(20)
        /\ r.YEAR.nan => r.CENTURY.nan

\* C3 amended: the century of year 1895 is 19, of year 1900 is 20 and of
\* year 1901 is 20, and it is absent when the year is absent.
C3_Century ==
    \A r \in Rows(df) :
        /\ r.YEAR = Num(1895) => r.CENTURY = Num(19)
        /\ r.YEAR = Num(1900) => r.CENTURY = Num(20)
        /\ r.YEAR = Num(1901) => r.CENTURY = Num(20)
        /\ r.YEAR.nan => r.CENTURY.nan

C3_Witness ==
    /\ Rendered
    /\ \E r \in Rows(df) : r.YEAR = Num(1895) /\ r.CENTURY = Num(19)
    /\ \E r \in Rows(df) : r.YEAR = Num(1900) /\ r.CENTURY = Num(20)
    /\ \E r \in Rows(df) : r.YEAR = Num(1901) /\ r.CENTURY = Num(20)

\* C4: for every loaded record, whatever the source lives-lost field holds,
\* lives_lost_clean is >= 0, equals the lives-lost value when it is present
\* and is 0 when it is missing or unparseable.
C4_LivesLostCleanNonNegative ==
    \A i \in 1..Len(df) :
        /\ df[i].LIVES_LOST_CLEAN >= 0
        /\ csv[i].LIVES_LOST.kind = "int" =>
              df[i].LIVES_LOST_CLEAN = csv[i].LIVES_LOST.val
        /\ csv[i].LIVES_LOST.kind # "int" => df[i].LIVES_LOST_CLEAN = 0

\* C5: with an empty or absent vessel-type selection the filter gives what
\* selecting every vessel type of the data gives: exactly the records of
\* present vessel type that pass the other two predicates, so records of
\* missing vessel type are excluded; with a non-empty selection only records
\* whose vessel type is in the selection are in the view.
AllTypes == {r.VESSEL_TYPE : r \in {x \in Rows(Loaded) : x.VESSEL_TYPE # MissingType}}
C5_EmptySelection ==
    Rendered =>
        LET all == filter_rows(Loaded, year_range, List(AllTypes), min_lives)
            absent == filter_rows(Loaded, year_range, None, min_lives)
            empty == filter_rows(Loaded, year_range, List({}), min_lives)
        IN /\ absent = all
           /\ empty = all
           /\ \A r \in Rows(empty) : r.VESSEL_TYPE # MissingType
           /\ selected_types = {} => filtered = all
           /\ selected_types # {} =>
                 \A r \in Rows(filtered) : r.VESSEL_TYPE \in selected_types

C5_Witness ==
    /\ Rendered
    /\ selected_types = {}
    /\ filtered # <<>>
    /\ \E r \in Rows(Loaded) :
          r.VESSEL_TYPE = MissingType /\ YearPasses(r) /\ LivesPasses(r)

\* C6: over a non-empty view of n records the deadliest ranking holds
\* exactly min(10, n) records of the view, in non-increasing order of
\* lives_lost_clean, and every record left out has lives_lost_clean <= that
\* of every record in the ranking.
C6_DeadliestRanking ==
    (Rendered /\ view_choice = "Deadliest Wrecks" /\ filtered # <<>>) =>
        LET top == out.top10
            n == Len(filtered)
        IN /\ Len(top) = IF n < 10 THEN n ELSE 10
           /\ \A j \in 1..Len(top) : top[j] \in Rows(filtered)
           /\ \A j, k \in 1..Len(top) : j # k => top[j].idx # top[k].idx
           /\ \A j, k \in 1..Len(top) :
                 j < k => top[j].LIVES_LOST_CLEAN >= top[k].LIVES_LOST_CLEAN
           /\ \A r \in Rows(filtered) \ Rows(top) : \A t \in Rows(top) :
                 r.LIVES_LOST_CLEAN <= t.LIVES_LOST_CLEAN

C6_Witness ==
    /\ Rendered
    /\ view_choice = "Deadliest Wrecks"
    /\ Len(filtered) > 10
    /\ Len(out.top10) = 10
    /\ \E r \in Rows(filtered) \ Rows(out.top10) :
          r.LIVES_LOST_CLEAN = out.top10[10].LIVES_LOST_CLEAN

\* C7: whenever the filtered view is empty the selected view reports that
\* nothing matches and computes no reduction; no interaction reaches a page
\* where a reduction ran over no rows or an error was raised.
C7_EmptyGuard ==
    Rendered =>
        /\ filtered = <<>> =>
              /\ out.msg \in {NoCoordsMsg, NoMatchMsg}
              /\ out.reductions = {}
        /\ \A red \in out.reductions : red[2] > 0
        /\ out.error = ""

C7_Witness ==
    /\ Rendered
    /\ filtered = <<>>
    /\ view_choice = "Deadliest Wrecks"
    /\ out.msg = NoMatchMsg
    /\ min_lives > 0

\* C8: filtering the filtered view again with the same criteria gives the
\* same records in the same order.
C8_Idempotent ==
    Rendered =>
        filter_rows(filtered, year_range, List(selected_types), min_lives)
            = filtered

C8_Witness ==
    /\ Rendered
    /\ filtered # <<>>
    /\ Len(filtered) < Len(Loaded)
    /\ min_lives > 0

\* C9: after any sequence of interactions the view handed to the renderer is
\* the filter of the full loaded record set under the current criteria only.
C9_FreshFromCurrentCriteria ==
    Rendered =>
        filtered = Select(Loaded, [i \in 1..Len(Loaded) |-> Accepted(Loaded[i])])

C9_Witness ==
    /\ Rendered
    /\ view_choice = "Time Trends"
    /\ min_lives > 0
    /\ year_range # get_year_limits(Loaded)
    /\ selected_types # default_types(Loaded)
    /\ filtered # <<>>

\* C10: after any sequence of filter and view operations the loaded records
\* and their columns are those load_data produced.
C10_LoadedUnchanged ==
    Rendered => df = Loaded

C10_Witness ==
    /\ Rendered
    /\ view_choice = "Map"
    /\ out.map_data # <<>>
    /\ Len(filtered) < Len(df)
    /\ \E i \in 1..Len(out.map_data) : out.map_data[i].COLOR = RED

====
